---- MODULE Spec2Model ----
(***************************************************************************)
(* kubestore: a key/value Store with four backends (ConfigMap, Secret,     *)
(* annotations of a host resource, directory of files).                    *)
(*                                                                         *)
(* A behaviour fixes one backend (kind) and runs Store operations of the   *)
(* callers in Procs against the one backing container.  Every remote or    *)
(* file-system call of an operation is one step; the environment may make  *)
(* any such call fail with an error other than "does not exist".           *)
(* Strings are sequences of one-character strings.                         *)
(***************************************************************************)
EXTENDS Integers, Sequences, FiniteSets, TLC

(* ------------------------------ bounds -------------------------------- *)

\* number of callers (Store instances bound to the same container)
NumProcs == 2

Procs == 1..NumProcs

\* number of distinct logical keys the callers use
NumKeys == 2

KeyNames == <<"a", "b", "c", "d">>

\* the logical keys: plain entry names
Keys == {<<KeyNames[i]>> : i \in 1..NumKeys}

NoKey == <<>>

(* ----------------------------- Go values ------------------------------ *)

IntV(n) == [t |-> "int", n |-> n, s |-> <<>>]

StrV(s) == [t |-> "string", n |-> 0, s |-> s]

\* a value encoding/json cannot serialise (a channel)
ChanV == [t |-> "chan", n |-> 0, s |-> <<>>]

NoValue == [t |-> "none", n |-> 0, s |-> <<>>]

\* the values the callers store
Values == {IntV(42), StrV(<<"\"">>), ChanV}

\* the Go types a caller may ask Get to decode into
Types == {"int", "string"}

(* ------------------------------- errors ------------------------------- *)

NoErr == [type |-> "nil", code |-> 0]

ErrorKeyNotFound == [type |-> "errorString: key not found", code |-> 0]

\* *errors.StatusError of the Kubernetes API, with its HTTP status code
StatusError(code) == [type |-> "StatusError", code |-> code]

\* a transport failure that is not a *errors.StatusError
NetError == [type |-> "net.OpError", code |-> 0]

\* *os.PathError with its errno
PathError(errno) == [type |-> "PathError:" \o errno, code |-> 0]

MarshalError == [type |-> "json.UnsupportedTypeError", code |-> 0]

UnmarshalError == [type |-> "json.UnmarshalError", code |-> 0]

\* what the environment may answer to a remote call instead of serving it
ApiFaults == {StatusError(403), NetError}

\* what the environment may answer to a file-system call instead of serving it
FsFaults == {PathError("EACCES")}

(* ------------------------------ strings ------------------------------- *)

Digits == <<"0", "1", "2", "3", "4", "5", "6", "7", "8", "9">>

IsDigit(c) == \E i \in 1..10 : Digits[i] = c

DigitVal(c) == (CHOOSE i \in 1..10 : Digits[i] = c) - 1

\* strings.HasPrefix
HasPrefix(s, prefix) ==
    /\ Len(s) >= Len(prefix)
    /\ SubSeq(s, 1, Len(prefix)) = prefix

\* strings.TrimPrefix
TrimPrefix(s, prefix) ==
    IF HasPrefix(s, prefix) THEN SubSeq(s, Len(prefix) + 1, Len(s)) ELSE s

\* byte order of the characters that occur in entry names
CharRank(c) ==
    CASE c = "/" -> 1
      [] c = "a" -> 2
      [] c = "b" -> 3
      [] c = "c" -> 4
      [] c = "d" -> 5
      [] OTHER -> 6

RECURSIVE StrLess(_, _)
StrLess(s, t) ==
    IF s = <<>> THEN t # <<>>
    ELSE IF t = <<>> THEN FALSE
    ELSE IF Head(s) = Head(t) THEN StrLess(Tail(s), Tail(t))
    ELSE CharRank(Head(s)) < CharRank(Head(t))

\* the orders in which the elements of a set can be enumerated
Orderings(S) ==
    {q \in [1..Cardinality(S) -> S] : \A i, j \in 1..Cardinality(S) : i # j => q[i] # q[j]}

\* the elements of a set of names in ascending order
Sorted(S) ==
    CHOOSE q \in Orderings(S) : \A i, j \in 1..Cardinality(S) : i < j => StrLess(q[i], q[j])

Range(q) == {q[i] : i \in 1..Len(q)}

(* ----------------------------- JSON codec ----------------------------- *)

RECURSIVE Itoa(_)
Itoa(n) ==
    IF n < 10 THEN <<Digits[n + 1]>>
    ELSE Itoa(n \div 10) \o <<Digits[(n % 10) + 1]>>

RECURSIVE Atoi(_)
Atoi(s) ==
    IF s = <<>> THEN 0
    ELSE 10 * Atoi(SubSeq(s, 1, Len(s) - 1)) + DigitVal(s[Len(s)])

\* a string's characters with '"' and '\' escaped
RECURSIVE Escape(_)
Escape(s) ==
    IF s = <<>> THEN <<>>
    ELSE IF Head(s) \in {"\"", "\\"} THEN <<"\\", Head(s)>> \o Escape(Tail(s))
    ELSE <<Head(s)>> \o Escape(Tail(s))

RECURSIVE Unescape(_)
Unescape(s) ==
    IF s = <<>> THEN <<>>
    ELSE IF Head(s) = "\\" /\ Len(s) >= 2 THEN <<s[2]>> \o Unescape(SubSeq(s, 3, Len(s)))
    ELSE <<Head(s)>> \o Unescape(Tail(s))

\* json.Marshal(value): the JSON text, or an error
jsonMarshal(value) ==
    CASE value.t = "int" -> [err |-> NoErr, data |-> Itoa(value.n)]
      [] value.t = "string" -> [err |-> NoErr, data |-> <<"\"">> \o Escape(value.s) \o <<"\"">>]
      [] OTHER -> [err |-> MarshalError, data |-> <<>>]

\* json.Unmarshal(data, value) with value a pointer to a variable of type typ
jsonUnmarshal(data, typ) ==
    CASE typ = "int" /\ data # <<>> /\ (\A i \in 1..Len(data) : IsDigit(data[i])) ->
            [err |-> NoErr, value |-> IntV(Atoi(data))]
      [] typ = "string" /\ Len(data) >= 2 /\ data[1] = "\"" /\ data[Len(data)] = "\"" ->
            [err |-> NoErr, value |-> StrV(Unescape(SubSeq(data, 2, Len(data) - 1)))]
      [] OTHER -> [err |-> UnmarshalError, value |-> NoValue]

(* ------------------- the backing systems (environment) ---------------- *)

EmptyMap == [n \in {} |-> <<>>]

\* JSON values of a merge-patch: a string, or null (the tombstone)
JStr(s) == [j |-> "string", s |-> s]

JNull == [j |-> "null", s |-> <<>>]

\* one-entry Go map literal
MapOf(name, v) == [n \in {name} |-> v]

\* JSON merge-patch of a flat string map: a null removes the entry, a string
\* sets it, entries the patch does not name are left as they are
MergePatch(target, patch) ==
    LET removed == {n \in DOMAIN patch : patch[n].j = "null"}
        set == DOMAIN patch \ removed
    IN  [n \in (DOMAIN target \ removed) \cup set |->
            IF n \in set THEN patch[n].s ELSE target[n]]

\* a container as the backing system holds it
Container(e, d) == [exists |-> e, data |-> d]

\* the answer to a call: the error, the object returned, the container afterwards
Answer(err, obj, after) == [err |-> err, obj |-> obj, after |-> after]

\* client.Get(name): fetch the named resource
clientGet(c, fault) ==
    IF fault # NoErr THEN Answer(fault, EmptyMap, c)
    ELSE IF ~c.exists THEN Answer(StatusError(404), EmptyMap, c)
    ELSE Answer(NoErr, c.data, c)

\* mutant: a patch whose call fails has been applied all the same
clientPatch_AppliedOnFault(c, merged, fault) ==
    IF fault # NoErr
    THEN Answer(fault, EmptyMap, IF c.exists THEN Container(TRUE, merged) ELSE c)
    ELSE IF ~c.exists THEN Answer(StatusError(404), EmptyMap, c)
    ELSE Answer(NoErr, merged, Container(TRUE, merged))

\* client.Patch(name, MergePatchType, payload): merged is the map after the merge
clientPatch(c, merged, fault) ==
    IF fault # NoErr THEN Answer(fault, EmptyMap, c)
    ELSE IF ~c.exists THEN Answer(StatusError(404), EmptyMap, c)
    ELSE Answer(NoErr, merged, Container(TRUE, merged))

\* client.Create(object with only a name)
clientCreate(c, fault) ==
    IF fault # NoErr THEN Answer(fault, EmptyMap, c)
    ELSE IF c.exists THEN Answer(StatusError(409), EmptyMap, c)
    ELSE Answer(NoErr, EmptyMap, Container(TRUE, EmptyMap))

\* mutant: the deletion is conditional on the container holding no entries
clientDelete_IfEmpty(c, fault) ==
    IF fault # NoErr THEN Answer(fault, EmptyMap, c)
    ELSE IF ~c.exists THEN Answer(StatusError(404), EmptyMap, c)
    ELSE IF DOMAIN c.data # {} THEN Answer(StatusError(409), EmptyMap, c)
    ELSE Answer(NoErr, EmptyMap, Container(FALSE, EmptyMap))

\* client.Delete(name)
clientDelete(c, fault) ==
    IF fault # NoErr THEN Answer(fault, EmptyMap, c)
    ELSE IF ~c.exists THEN Answer(StatusError(404), EmptyMap, c)
    ELSE Answer(NoErr, EmptyMap, Container(FALSE, EmptyMap))

\* ioutil.ReadFile(directory/key)
ioReadFile(c, key, fault) ==
    IF fault # NoErr THEN Answer(fault, <<>>, c)
    ELSE IF ~c.exists \/ key \notin DOMAIN c.data THEN Answer(PathError("ENOENT"), <<>>, c)
    ELSE Answer(NoErr, c.data[key], c)

\* os.MkdirAll(directory)
osMkdirAll(c, fault) ==
    IF fault # NoErr THEN Answer(fault, <<>>, c)
    ELSE Answer(NoErr, <<>>, Container(TRUE, c.data))

\* mutant: the write creates the missing directory
ioWriteFile_Mkdirs(c, key, bytes, fault) ==
    IF fault # NoErr THEN Answer(fault, <<>>, c)
    ELSE Answer(NoErr, <<>>,
                Container(TRUE, [n \in DOMAIN c.data \cup {key} |->
                                    IF n = key THEN bytes ELSE c.data[n]]))

\* ioutil.WriteFile(directory/key, bytes)
ioWriteFile(c, key, bytes, fault) ==
    IF fault # NoErr THEN Answer(fault, <<>>, c)
    ELSE IF ~c.exists THEN Answer(PathError("ENOENT"), <<>>, c)
    ELSE Answer(NoErr, <<>>,
                Container(TRUE, [n \in DOMAIN c.data \cup {key} |->
                                    IF n = key THEN bytes ELSE c.data[n]]))

\* ioutil.ReadDir(directory): the entries' names, sorted by name
ioReadDir(c, fault) ==
    IF fault # NoErr THEN Answer(fault, <<>>, c)
    ELSE IF ~c.exists THEN Answer(PathError("ENOENT"), <<>>, c)
    ELSE Answer(NoErr, Sorted(DOMAIN c.data), c)

\* os.Remove(directory/key)
osRemoveFile(c, key, fault) ==
    IF fault # NoErr THEN Answer(fault, <<>>, c)
    ELSE IF ~c.exists \/ key \notin DOMAIN c.data THEN Answer(PathError("ENOENT"), <<>>, c)
    ELSE Answer(NoErr, <<>>, Container(TRUE, [n \in DOMAIN c.data \ {key} |-> c.data[n]]))

\* mutant: the directory is removed with everything in it
osRemoveDir_All(c, fault) ==
    IF fault # NoErr THEN Answer(fault, <<>>, c)
    ELSE IF ~c.exists THEN Answer(PathError("ENOENT"), <<>>, c)
    ELSE Answer(NoErr, <<>>, Container(FALSE, EmptyMap))

\* os.Remove(directory): removes the directory only when it is empty
osRemoveDir(c, fault) ==
    IF fault # NoErr THEN Answer(fault, <<>>, c)
    ELSE IF ~c.exists THEN Answer(PathError("ENOENT"), <<>>, c)
    ELSE IF DOMAIN c.data # {} THEN Answer(PathError("ENOTEMPTY"), <<>>, c)
    ELSE Answer(NoErr, <<>>, Container(FALSE, EmptyMap))

\* os.IsNotExist
osIsNotExist(err) == err = PathError("ENOENT")

(* --------------------------- shared helpers --------------------------- *)

\* mutant: the code compared with is 400
isResourceMissingError_400(err) ==
    IF err.type = "StatusError" THEN err.code = 400 ELSE FALSE

\* isResourceMissingError: a *errors.StatusError whose code is 404
isResourceMissingError(err) ==
    IF err.type = "StatusError" THEN err.code = 404 ELSE FALSE

\* what an operation returns: error, decoded value (Get), keys (List)
Result(err, value, keys) == [err |-> err, value |-> value, keys |-> keys]

Fail(err) == Result(err, NoValue, <<>>)

Ok == Result(NoErr, NoValue, <<>>)

(* ------------------------------- state -------------------------------- *)

VARIABLES
    kind,       \* the backend of this behaviour
    container,  \* the backing container: whether it exists, and its entries
    pc,         \* per caller: "idle", the step its operation is at, or "done"
    op,         \* per caller: the operation invoked last
    ret,        \* per caller: what the operation returned (meaningful at "done")
    calls,      \* per caller: the remote / file calls its operation has issued
    before,     \* the container when the latest operation was invoked
    lastSet,    \* per key: the value of a successful Set not followed by a
                \*   Set or Delete of that key, else NoValue
    faulted     \* whether the environment has failed any call so far

vars == <<kind, container, pc, op, ret, calls, before, lastSet, faulted>>

Kinds == {"configmap", "secret", "annotation", "file"}

Structured == {"configmap", "secret"}

Operation(name, key, value, typ) == [name |-> name, key |-> key, value |-> value, typ |-> typ]

NoOp == Operation("none", NoKey, NoValue, "none")

Operations ==
    {Operation("Get", k, NoValue, t) : k \in Keys, t \in Types}
        \cup {Operation("Set", k, v, "none") : k \in Keys, v \in Values}
        \cup {Operation("Delete", k, NoValue, "none") : k \in Keys}
        \cup {Operation("List", NoKey, NoValue, "none")}

NoFault == NoErr

\* no operation is in progress
Quiescent == \A p \in Procs : pc[p] \in {"idle", "done"}

\* the number of calls of one operation the log keeps
MaxLog == 4

\* the log with entry e added: the latest MaxLog calls
Logged(log, e) ==
    IF Len(log) < MaxLog THEN Append(log, e) ELSE Append(Tail(log), e)

\* bookkeeping of one remote / file call of caller p
Issue(p, name, fault) ==
    /\ calls' = [calls EXCEPT ![p] = Logged(@, [call |-> name, fault |-> fault])]
    /\ faulted' = (faulted \/ fault # NoFault)

\* a step of caller p that issues no call
NoIssue == UNCHANGED <<calls, faulted>>

\* the operation of caller p returns r
Return(p, r) ==
    /\ pc' = [pc EXCEPT ![p] = "done"]
    /\ ret' = [ret EXCEPT ![p] = r]
    /\ lastSet' = IF op[p].name = "Set" /\ r.err = NoErr
                   THEN [lastSet EXCEPT ![op[p].key] = op[p].value]
                   ELSE lastSet
    /\ UNCHANGED <<kind, op, before>>

\* the operation of caller p continues at step l
Goto(p, l) ==
    /\ pc' = [pc EXCEPT ![p] = l]
    /\ UNCHANGED <<kind, op, ret, before, lastSet>>

\* Sequential use: caller p invokes operation o when no operation is in
\* progress; what the other callers' finished operations returned has been
\* consumed by then.
Call(p) ==
    /\ Quiescent
    /\ \E o \in Operations :
          /\ pc' = [q \in Procs |-> IF q = p THEN o.name ELSE "idle"]
          /\ op' = [q \in Procs |-> IF q = p THEN o ELSE NoOp]
          /\ ret' = [q \in Procs |-> Ok]
          /\ calls' = [q \in Procs |-> <<>>]
          /\ before' = container
          /\ lastSet' = IF o.name \in {"Set", "Delete"}
                         THEN [lastSet EXCEPT ![o.key] = NoValue]
                         ELSE lastSet
    /\ UNCHANGED <<kind, container, faulted>>

(* ------------------------- configMapStore ----------------------------- *)

\* mutant: the entry is named by the encoded text instead of the key
configMapSetPatch_Swapped(key, text) == [data |-> MapOf(text, JStr(text))]

\* the merge-patch of Set: {"data": {key: text}}
configMapSetPatch(key, text) == [data |-> MapOf(key, JStr(text))]

\* the merge-patch of Delete: {"data": {key: null}}
configMapDeletePatch(key) == [data |-> MapOf(key, JNull)]

\* mutant: the patch replaces the ConfigMap's data instead of merging into it
configMapApply_Replace(d, patch) == MergePatch(EmptyMap, patch.data)

\* the ConfigMap's data after the API server applied a merge-patch
configMapApply(d, patch) == MergePatch(d, patch.data)

\* mutant: a missing ConfigMap is reported as the API's own error
configMapGetResult_NoClassify(a, key, typ) ==
    IF a.err # NoErr THEN Fail(a.err)
    ELSE IF key \notin DOMAIN a.obj THEN Fail(ErrorKeyNotFound)
    ELSE LET u == jsonUnmarshal(a.obj[key], typ) IN Result(u.err, u.value, <<>>)

\* Get, from the answer to the fetch
configMapGetResult(a, key, typ) ==
    IF a.err # NoErr
    THEN IF isResourceMissingError(a.err) THEN Fail(ErrorKeyNotFound) ELSE Fail(a.err)
    ELSE IF key \notin DOMAIN a.obj THEN Fail(ErrorKeyNotFound)
    ELSE LET u == jsonUnmarshal(a.obj[key], typ) IN Result(u.err, u.value, <<>>)

\* mutant: a Get that finds no ConfigMap creates it
configMapStore_Get_Creates(p) ==
    /\ kind = "configmap" /\ pc[p] = "Get"
    /\ \E fault \in {NoFault} \cup ApiFaults :
          LET a == clientGet(container, fault)
          IN  /\ container' = IF isResourceMissingError(a.err)
                              THEN clientCreate(container, NoFault).after
                              ELSE a.after
              /\ Issue(p, "Get", fault)
              /\ Return(p, configMapGetResult(a, op[p].key, op[p].typ))

configMapStore_Get(p) ==
    /\ kind = "configmap" /\ pc[p] = "Get"
    /\ \E fault \in {NoFault} \cup ApiFaults :
          LET a == clientGet(container, fault)
          IN  /\ container' = a.after
              /\ Issue(p, "Get", fault)
              /\ Return(p, configMapGetResult(a, op[p].key, op[p].typ))

configMapStore_Set(p) ==
    /\ kind = "configmap" /\ pc[p] = "Set"
    /\ LET m == jsonMarshal(op[p].value)
       IN  IF m.err # NoErr
           THEN UNCHANGED container /\ NoIssue /\ Return(p, Fail(m.err))
           ELSE \E fault \in {NoFault} \cup ApiFaults :
                  LET patch == configMapSetPatch(op[p].key, m.data)
                      a == clientPatch(container, configMapApply(container.data, patch), fault)
                  IN  /\ container' = a.after
                      /\ Issue(p, "Patch", fault)
                      /\ IF a.err # NoErr
                         THEN IF isResourceMissingError(a.err)
                              THEN Goto(p, "create")
                              ELSE Return(p, Fail(a.err))
                         ELSE Return(p, Ok)

\* mutant: Set returns after the create without patching again
configMapStore_create_NoRetry(p) ==
    /\ kind = "configmap" /\ pc[p] = "create"
    /\ \E fault \in {NoFault} \cup ApiFaults :
          LET a == clientCreate(container, fault)
          IN  /\ container' = a.after
              /\ Issue(p, "Create", fault)
              /\ Return(p, Fail(a.err))

\* the create helper as Set calls it: on success Set calls itself again
configMapStore_create(p) ==
    /\ kind = "configmap" /\ pc[p] = "create"
    /\ \E fault \in {NoFault} \cup ApiFaults :
          LET a == clientCreate(container, fault)
          IN  /\ container' = a.after
              /\ Issue(p, "Create", fault)
              /\ IF a.err # NoErr THEN Return(p, Fail(a.err)) ELSE Goto(p, "Set")

\* mutant: the key slice is made with length len(Data) instead of capacity, so
\* the keys are appended after that many empty strings
configMapStore_List_Padded(p) ==
    /\ kind = "configmap" /\ pc[p] = "List"
    /\ \E fault \in {NoFault} \cup ApiFaults :
          LET a == clientGet(container, fault)
          IN  /\ container' = a.after
              /\ Issue(p, "Get", fault)
              /\ IF a.err # NoErr
                 THEN IF isResourceMissingError(a.err)
                      THEN Return(p, Ok)
                      ELSE Return(p, Fail(a.err))
                 ELSE \E keys \in Orderings(DOMAIN a.obj) :
                        Return(p, Result(NoErr, NoValue,
                                         [i \in 1..Len(keys) |-> <<>>] \o keys))

configMapStore_List(p) ==
    /\ kind = "configmap" /\ pc[p] = "List"
    /\ \E fault \in {NoFault} \cup ApiFaults :
          LET a == clientGet(container, fault)
          IN  /\ container' = a.after
              /\ Issue(p, "Get", fault)
              /\ IF a.err # NoErr
                 THEN IF isResourceMissingError(a.err)
                      THEN Return(p, Ok)
                      ELSE Return(p, Fail(a.err))
                 ELSE \E keys \in Orderings(DOMAIN a.obj) :
                        Return(p, Result(NoErr, NoValue, keys))

\* mutant: the ConfigMap is deleted without looking at what the patch returned
configMapStore_Delete_AlwaysCleanup(p) ==
    /\ kind = "configmap" /\ pc[p] = "Delete"
    /\ \E fault \in {NoFault} \cup ApiFaults :
          LET patch == configMapDeletePatch(op[p].key)
              a == clientPatch(container, configMapApply(container.data, patch), fault)
          IN  /\ container' = a.after
              /\ Issue(p, "Patch", fault)
              /\ IF a.err # NoErr
                 THEN IF isResourceMissingError(a.err)
                      THEN Return(p, Ok)
                      ELSE Return(p, Fail(a.err))
                 ELSE Goto(p, "delete")

configMapStore_Delete(p) ==
    /\ kind = "configmap" /\ pc[p] = "Delete"
    /\ \E fault \in {NoFault} \cup ApiFaults :
          LET patch == configMapDeletePatch(op[p].key)
              a == clientPatch(container, configMapApply(container.data, patch), fault)
          IN  /\ container' = a.after
              /\ Issue(p, "Patch", fault)
              /\ IF a.err # NoErr
                 THEN IF isResourceMissingError(a.err)
                      THEN Return(p, Ok)
                      ELSE Return(p, Fail(a.err))
                 ELSE IF Cardinality(DOMAIN a.obj) = 0
                      THEN Goto(p, "delete")
                      ELSE Return(p, Ok)

\* mutant: Delete returns the error of the container deletion
configMapStore_delete_Surfaced(p) ==
    /\ kind = "configmap" /\ pc[p] = "delete"
    /\ \E fault \in {NoFault} \cup ApiFaults :
          LET a == clientDelete(container, fault)
          IN  /\ container' = a.after
              /\ Issue(p, "Delete", fault)
              /\ Return(p, Fail(a.err))

\* the delete helper as Delete calls it: its error is dropped
configMapStore_delete(p) ==
    /\ kind = "configmap" /\ pc[p] = "delete"
    /\ \E fault \in {NoFault} \cup ApiFaults :
          LET a == clientDelete(container, fault)
          IN  /\ container' = a.after
              /\ Issue(p, "Delete", fault)
              /\ Return(p, Ok)

(* ---------------------------- fileStore ------------------------------- *)

fileStore_Get(p) ==
    /\ kind = "file" /\ pc[p] = "Get"
    /\ \E fault \in {NoFault} \cup FsFaults :
          LET a == ioReadFile(container, op[p].key, fault)
          IN  /\ container' = a.after
              /\ Issue(p, "ReadFile", fault)
              /\ IF a.err # NoErr
                 THEN IF osIsNotExist(a.err)
                      THEN Return(p, Fail(ErrorKeyNotFound))
                      ELSE Return(p, Fail(a.err))
                 ELSE LET u == jsonUnmarshal(a.obj, op[p].typ)
                      IN  Return(p, Result(u.err, u.value, <<>>))

\* Set up to os.MkdirAll
fileStore_Set(p) ==
    /\ kind = "file" /\ pc[p] = "Set"
    /\ LET m == jsonMarshal(op[p].value)
       IN  IF m.err # NoErr
           THEN UNCHANGED container /\ NoIssue /\ Return(p, Fail(m.err))
           ELSE \E fault \in {NoFault} \cup FsFaults :
                  LET a == osMkdirAll(container, fault)
                  IN  /\ container' = a.after
                      /\ Issue(p, "MkdirAll", fault)
                      /\ IF a.err # NoErr
                         THEN Return(p, Fail(a.err))
                         ELSE Goto(p, "WriteFile")

\* Set's ioutil.WriteFile, whose error Set returns
fileStore_SetWriteFile(p) ==
    /\ kind = "file" /\ pc[p] = "WriteFile"
    /\ \E fault \in {NoFault} \cup FsFaults :
          LET a == ioWriteFile(container, op[p].key, jsonMarshal(op[p].value).data, fault)
          IN  /\ container' = a.after
              /\ Issue(p, "WriteFile", fault)
              /\ Return(p, Fail(a.err))

fileStore_List(p) ==
    /\ kind = "file" /\ pc[p] = "List"
    /\ \E fault \in {NoFault} \cup FsFaults :
          LET a == ioReadDir(container, fault)
          IN  /\ container' = a.after
              /\ Issue(p, "ReadDir", fault)
              /\ IF a.err # NoErr
                 THEN Return(p, Ok)
                 ELSE Return(p, Result(NoErr, NoValue, a.obj))

\* Delete up to os.Remove of the file
fileStore_Delete(p) ==
    /\ kind = "file" /\ pc[p] = "Delete"
    /\ \E fault \in {NoFault} \cup FsFaults :
          LET a == osRemoveFile(container, op[p].key, fault)
          IN  /\ container' = a.after
              /\ Issue(p, "Remove", fault)
              /\ IF a.err # NoErr
                 THEN Return(p, Fail(a.err))
                 ELSE Goto(p, "RemoveDir")

\* Delete's os.Remove of the directory, whose error is dropped
fileStore_DeleteRemoveDir(p) ==
    /\ kind = "file" /\ pc[p] = "RemoveDir"
    /\ \E fault \in {NoFault} \cup FsFaults :
          LET a == osRemoveDir(container, fault)
          IN  /\ container' = a.after
              /\ Issue(p, "RemoveDir", fault)
              /\ Return(p, Ok)

(* --------------------------- secretStore ------------------------------ *)

\* the merge-patch of Set: {"stringData": {key: text}}, no "data"
secretSetPatch(key, text) == [data |-> EmptyMap, stringData |-> MapOf(key, JStr(text))]

\* mutant: Delete's tombstone is carried under stringData
secretDeletePatch_StringData(key) == [data |-> EmptyMap, stringData |-> MapOf(key, JNull)]

\* the merge-patch of Delete: {"data": {key: null}}, no "stringData"
secretDeletePatch(key) == [data |-> MapOf(key, JNull), stringData |-> EmptyMap]

\* the Secret's data after the API server applied a merge-patch: "data" is
\* merged, then every stringData entry is written into data as its bytes;
\* stringData itself is never stored, so a null under it removes nothing
secretApply(d, patch) ==
    LET merged == MergePatch(d, patch.data)
        written == {n \in DOMAIN patch.stringData : patch.stringData[n].j # "null"}
    IN  [n \in DOMAIN merged \cup written |->
            IF n \in written THEN patch.stringData[n].s ELSE merged[n]]

secretStore_Get(p) ==
    /\ kind = "secret" /\ pc[p] = "Get"
    /\ \E fault \in {NoFault} \cup ApiFaults :
          LET a == clientGet(container, fault)
          IN  /\ container' = a.after
              /\ Issue(p, "Get", fault)
              /\ IF a.err # NoErr
                 THEN IF isResourceMissingError(a.err)
                      THEN Return(p, Fail(ErrorKeyNotFound))
                      ELSE Return(p, Fail(a.err))
                 ELSE IF op[p].key \notin DOMAIN a.obj
                      THEN Return(p, Fail(ErrorKeyNotFound))
                      ELSE LET u == jsonUnmarshal(a.obj[op[p].key], op[p].typ)
                           IN  Return(p, Result(u.err, u.value, <<>>))

secretStore_Set(p) ==
    /\ kind = "secret" /\ pc[p] = "Set"
    /\ LET m == jsonMarshal(op[p].value)
       IN  IF m.err # NoErr
           THEN UNCHANGED container /\ NoIssue /\ Return(p, Fail(m.err))
           ELSE \E fault \in {NoFault} \cup ApiFaults :
                  LET patch == secretSetPatch(op[p].key, m.data)
                      a == clientPatch(container, secretApply(container.data, patch), fault)
                  IN  /\ container' = a.after
                      /\ Issue(p, "Patch", fault)
                      /\ IF a.err # NoErr
                         THEN IF isResourceMissingError(a.err)
                              THEN Goto(p, "create")
                              ELSE Return(p, Fail(a.err))
                         ELSE Return(p, Ok)

\* the create helper as Set calls it: on success Set calls itself again
secretStore_create(p) ==
    /\ kind = "secret" /\ pc[p] = "create"
    /\ \E fault \in {NoFault} \cup ApiFaults :
          LET a == clientCreate(container, fault)
          IN  /\ container' = a.after
              /\ Issue(p, "Create", fault)
              /\ IF a.err # NoErr THEN Return(p, Fail(a.err)) ELSE Goto(p, "Set")

secretStore_List(p) ==
    /\ kind = "secret" /\ pc[p] = "List"
    /\ \E fault \in {NoFault} \cup ApiFaults :
          LET a == clientGet(container, fault)
          IN  /\ container' = a.after
              /\ Issue(p, "Get", fault)
              /\ IF a.err # NoErr
                 THEN IF isResourceMissingError(a.err)
                      THEN Return(p, Ok)
                      ELSE Return(p, Fail(a.err))
                 ELSE \E keys \in Orderings(DOMAIN a.obj) :
                        Return(p, Result(NoErr, NoValue, keys))

\* mutant: the emptied Secret is left in place
secretStore_Delete_NoCleanup(p) ==
    /\ kind = "secret" /\ pc[p] = "Delete"
    /\ \E fault \in {NoFault} \cup ApiFaults :
          LET patch == secretDeletePatch(op[p].key)
              a == clientPatch(container, secretApply(container.data, patch), fault)
          IN  /\ container' = a.after
              /\ Issue(p, "Patch", fault)
              /\ IF a.err # NoErr
                 THEN IF isResourceMissingError(a.err)
                      THEN Return(p, Ok)
                      ELSE Return(p, Fail(a.err))
                 ELSE Return(p, Ok)

secretStore_Delete(p) ==
    /\ kind = "secret" /\ pc[p] = "Delete"
    /\ \E fault \in {NoFault} \cup ApiFaults :
          LET patch == secretDeletePatch(op[p].key)
              a == clientPatch(container, secretApply(container.data, patch), fault)
          IN  /\ container' = a.after
              /\ Issue(p, "Patch", fault)
              /\ IF a.err # NoErr
                 THEN IF isResourceMissingError(a.err)
                      THEN Return(p, Ok)
                      ELSE Return(p, Fail(a.err))
                 ELSE IF Cardinality(DOMAIN a.obj) = 0
                      THEN Goto(p, "delete")
                      ELSE Return(p, Ok)

\* the delete helper as Delete calls it: its error is dropped
secretStore_delete(p) ==
    /\ kind = "secret" /\ pc[p] = "delete"
    /\ \E fault \in {NoFault} \cup ApiFaults :
          LET a == clientDelete(container, fault)
          IN  /\ container' = a.after
              /\ Issue(p, "Delete", fault)
              /\ Return(p, Ok)

(* ------------------------- annotationStore ---------------------------- *)

annotationPrefix == <<"k", "u", "b", "e", "s", "t", "o", "r", "e">>

\* fmt.Sprintf("%s/%s", annotationPrefix, key)
annotationName(key) == annotationPrefix \o <<"/">> \o key

\* the merge-patch of Set: {"metadata": {"annotations": {annotation: text}}}
annotationSetPatch(key, text) ==
    [metadata |-> [annotations |-> MapOf(annotationName(key), JStr(text))]]

\* the merge-patch of Delete: {"metadata": {"annotations": {annotation: null}}}
annotationDeletePatch(key) ==
    [metadata |-> [annotations |-> MapOf(annotationName(key), JNull)]]

\* the resource's annotations after the API server applied a merge-patch
annotationApply(d, patch) == MergePatch(d, patch.metadata.annotations)

\* mutant: the prefix is tested without the "/"
annotationMatches_NoSlash(annotations) ==
    {n \in annotations : HasPrefix(n, annotationPrefix)}

\* the annotations List keeps: those that start with the prefix and "/"
annotationMatches(annotations) ==
    {n \in annotations : HasPrefix(n, annotationPrefix \o <<"/">>)}

\* the key List reports for an annotation it keeps
annotationKey(annotation) == TrimPrefix(annotation, annotationPrefix \o <<"/">>)

\* annotations that other owners put on the host resource
Unrelated ==
    {<<"a">>, <<"o", "/", "a">>, annotationPrefix, annotationPrefix \o <<"x", "/", "a">>}

UnrelatedText == <<"1", "2", "3">>

annotationStore_Get(p) ==
    /\ kind = "annotation" /\ pc[p] = "Get"
    /\ \E fault \in {NoFault} \cup ApiFaults :
          LET a == clientGet(container, fault)
              annotation == annotationName(op[p].key)
          IN  /\ container' = a.after
              /\ Issue(p, "Get", fault)
              /\ IF a.err # NoErr
                 THEN IF isResourceMissingError(a.err)
                      THEN Return(p, Fail(ErrorKeyNotFound))
                      ELSE Return(p, Fail(a.err))
                 ELSE IF annotation \notin DOMAIN a.obj
                      THEN Return(p, Fail(ErrorKeyNotFound))
                      ELSE LET u == jsonUnmarshal(a.obj[annotation], op[p].typ)
                           IN  Return(p, Result(u.err, u.value, <<>>))

\* mutant: a missing host resource is created, as the ConfigMap Store does
annotationStore_Set_Creates(p) ==
    /\ kind = "annotation" /\ pc[p] = "Set"
    /\ LET m == jsonMarshal(op[p].value)
       IN  IF m.err # NoErr
           THEN UNCHANGED container /\ NoIssue /\ Return(p, Fail(m.err))
           ELSE \E fault \in {NoFault} \cup ApiFaults :
                  LET patch == annotationSetPatch(op[p].key, m.data)
                      a == clientPatch(container, annotationApply(container.data, patch), fault)
                  IN  /\ Issue(p, "Patch", fault)
                      /\ IF isResourceMissingError(a.err)
                         THEN /\ container' = clientCreate(container, NoFault).after
                              /\ Return(p, Ok)
                         ELSE /\ container' = a.after
                              /\ Return(p, Fail(a.err))

annotationStore_Set(p) ==
    /\ kind = "annotation" /\ pc[p] = "Set"
    /\ LET m == jsonMarshal(op[p].value)
       IN  IF m.err # NoErr
           THEN UNCHANGED container /\ NoIssue /\ Return(p, Fail(m.err))
           ELSE \E fault \in {NoFault} \cup ApiFaults :
                  LET patch == annotationSetPatch(op[p].key, m.data)
                      a == clientPatch(container, annotationApply(container.data, patch), fault)
                  IN  /\ container' = a.after
                      /\ Issue(p, "Patch", fault)
                      /\ Return(p, Fail(a.err))

annotationStore_List(p) ==
    /\ kind = "annotation" /\ pc[p] = "List"
    /\ \E fault \in {NoFault} \cup ApiFaults :
          LET a == clientGet(container, fault)
          IN  /\ container' = a.after
              /\ Issue(p, "Get", fault)
              /\ IF a.err # NoErr
                 THEN IF isResourceMissingError(a.err)
                      THEN Return(p, Ok)
                      ELSE Return(p, Fail(a.err))
                 ELSE \E q \in Orderings(annotationMatches(DOMAIN a.obj)) :
                        Return(p, Result(NoErr, NoValue,
                                         [i \in 1..Len(q) |-> annotationKey(q[i])]))

annotationStore_Delete(p) ==
    /\ kind = "annotation" /\ pc[p] = "Delete"
    /\ \E fault \in {NoFault} \cup ApiFaults :
          LET patch == annotationDeletePatch(op[p].key)
              a == clientPatch(container, annotationApply(container.data, patch), fault)
          IN  /\ container' = a.after
              /\ Issue(p, "Patch", fault)
              /\ IF a.err # NoErr
                 THEN IF isResourceMissingError(a.err)
                      THEN Return(p, Ok)
                      ELSE Return(p, Fail(a.err))
                 ELSE Return(p, Ok)

(* --------------------------- specification ---------------------------- *)

\* the containers a Store may find when it is constructed: the ConfigMap, the
\* Secret and the directory are the Store's own and absent; the host resource
\* of an annotation Store is absent, or exists with other owners' annotations
InitContainers(k) ==
    IF k = "annotation"
    THEN {Container(FALSE, EmptyMap), Container(TRUE, EmptyMap),
          Container(TRUE, [n \in Unrelated |-> UnrelatedText])}
    ELSE {Container(FALSE, EmptyMap)}

Init ==
    /\ kind \in Kinds
    /\ container \in InitContainers(kind)
    /\ pc = [p \in Procs |-> "idle"]
    /\ op = [p \in Procs |-> NoOp]
    /\ ret = [p \in Procs |-> Ok]
    /\ calls = [p \in Procs |-> <<>>]
    /\ before = container
    /\ lastSet = [k \in Keys |-> NoValue]
    /\ faulted = FALSE

Next ==
    \E p \in Procs :
        \/ Call(p)
        \/ configMapStore_Get(p)
        \/ configMapStore_Set(p)
        \/ configMapStore_create(p)
        \/ configMapStore_List(p)
        \/ configMapStore_Delete(p)
        \/ configMapStore_delete(p)
        \/ secretStore_Get(p)
        \/ secretStore_Set(p)
        \/ secretStore_create(p)
        \/ secretStore_List(p)
        \/ secretStore_Delete(p)
        \/ secretStore_delete(p)
        \/ annotationStore_Get(p)
        \/ annotationStore_Set(p)
        \/ annotationStore_List(p)
        \/ annotationStore_Delete(p)
        \/ fileStore_Get(p)
        \/ fileStore_Set(p)
        \/ fileStore_SetWriteFile(p)
        \/ fileStore_List(p)
        \/ fileStore_Delete(p)
        \/ fileStore_DeleteRemoveDir(p)

Spec == Init /\ [][Next]_vars

(* ------------------------ concurrent callers -------------------------- *)

\* the values that can be serialised
Serialisable == {v \in Values : jsonMarshal(v).err = NoErr}

\* their JSON texts
Texts == {jsonMarshal(v).data : v \in Serialisable}

\* the name under which backend k stores a logical key
StoredName(k, key) == IF k = "annotation" THEN annotationName(key) ELSE key

\* the JSON text earlier Sets left behind
EarlierText == jsonMarshal(StrV(<<"\"">>)).data

\* the containers sequential use of a Store of backend k leaves behind:
\* absent, or existing with any of the keys, each holding a JSON text
ConcContainers(k) ==
    {Container(FALSE, EmptyMap)}
        \cup {Container(TRUE, [n \in {StoredName(k, key) : key \in S} |-> EarlierText]) :
                S \in SUBSET Keys}

\* the operations that write: Set of a value other than the earlier one, and
\* Delete
Writes ==
    {Operation("Set", k, IntV(42), "none") : k \in Keys}
        \cup {Operation("Delete", k, NoValue, "none") : k \in Keys}

InitConc ==
    /\ kind \in Kinds
    /\ container \in ConcContainers(kind)
    /\ pc = [p \in Procs |-> "idle"]
    /\ op = [p \in Procs |-> NoOp]
    /\ ret = [p \in Procs |-> Ok]
    /\ calls = [p \in Procs |-> <<>>]
    /\ before = container
    /\ lastSet = [k \in Keys |-> NoValue]
    /\ faulted = FALSE

\* Concurrent use: caller p invokes its one write, whatever the other
\* callers are doing
Start(p) ==
    /\ pc[p] = "idle"
    /\ \E o \in Writes :
          /\ pc' = [pc EXCEPT ![p] = o.name]
          /\ op' = [op EXCEPT ![p] = o]
    /\ UNCHANGED <<kind, container, ret, calls, before, lastSet, faulted>>

NextConc ==
    \E p \in Procs :
        \/ Start(p)
        \/ configMapStore_Set(p)
        \/ configMapStore_create(p)
        \/ configMapStore_Delete(p)
        \/ configMapStore_delete(p)
        \/ secretStore_Set(p)
        \/ secretStore_create(p)
        \/ secretStore_Delete(p)
        \/ secretStore_delete(p)
        \/ annotationStore_Set(p)
        \/ annotationStore_Delete(p)
        \/ fileStore_Set(p)
        \/ fileStore_SetWriteFile(p)
        \/ fileStore_Delete(p)
        \/ fileStore_DeleteRemoveDir(p)

\* every caller runs one write; the writes interleave call by call
SpecConc == InitConc /\ [][NextConc]_vars

(* ------------------------ what the claims read ------------------------ *)

\* the operations callers keep invoking while others are in progress
Invocations ==
    {Operation("Get", k, NoValue, "int") : k \in Keys}
        \cup {Operation("Set", k, IntV(42), "none") : k \in Keys}
        \cup {Operation("Delete", k, NoValue, "none") : k \in Keys}
        \cup {Operation("List", NoKey, NoValue, "none")}

Invoke(p) ==
    /\ pc[p] \in {"idle", "done"}
    /\ \E o \in Invocations :
          /\ pc' = [pc EXCEPT ![p] = o.name]
          /\ op' = [op EXCEPT ![p] = o]
    /\ ret' = [ret EXCEPT ![p] = Ok]
    /\ calls' = [calls EXCEPT ![p] = <<>>]
    /\ UNCHANGED <<kind, container, before, lastSet, faulted>>

\* the next remote / file call of caller p's operation, and what the
\* operation does with its answer
Step(p) ==
    \/ configMapStore_Get(p)
    \/ configMapStore_Set(p)
    \/ configMapStore_create(p)
    \/ configMapStore_List(p)
    \/ configMapStore_Delete(p)
    \/ configMapStore_delete(p)
    \/ secretStore_Get(p)
    \/ secretStore_Set(p)
    \/ secretStore_create(p)
    \/ secretStore_List(p)
    \/ secretStore_Delete(p)
    \/ secretStore_delete(p)
    \/ annotationStore_Get(p)
    \/ annotationStore_Set(p)
    \/ annotationStore_List(p)
    \/ annotationStore_Delete(p)
    \/ fileStore_Get(p)
    \/ fileStore_Set(p)
    \/ fileStore_SetWriteFile(p)
    \/ fileStore_List(p)
    \/ fileStore_Delete(p)
    \/ fileStore_DeleteRemoveDir(p)

NextLive == \E p \in Procs : Invoke(p) \/ Step(p)

\* every remote / file call returns and every caller is scheduled: a caller
\* whose operation is in progress takes its next step
Fairness == \A p \in Procs : WF_vars(Step(p))

SpecLive == Init /\ [][NextLive]_vars /\ Fairness

\* the name under which the backend stores logical key k
EntryName(k) == IF kind = "annotation" THEN annotationName(k) ELSE k

\* the container c holds an entry for logical key k
Has(c, k) == c.exists /\ EntryName(k) \in DOMAIN c.data

\* the logical keys container c holds
StoredKeys(c) == {k \in Keys : Has(c, k)}

\* the operation of caller p has returned
Done(p, name) == pc[p] = "done" /\ op[p].name = name

\* the environment failed none of the calls of caller p's operation
NoFaults(p) == \A i \in 1..Len(calls[p]) : calls[p][i].fault = NoFault

\* the names of the calls caller p's operation issued, in order
CallNames(p) == [i \in 1..Len(calls[p]) |-> calls[p][i].call]

(* ------------------------------- claims ------------------------------- *)

\* C1: a Get(k) that follows a successful Set(k, v), with no Delete(k) and no
\* other Set(k, _) in between, returns v (decoded into v's type), on every
\* backend, whatever was done to other keys in between.
C1_RoundTrip ==
    \A p \in Procs :
        (/\ Done(p, "Get")
         /\ NoFaults(p)
         /\ lastSet[op[p].key] # NoValue
         /\ op[p].typ = lastSet[op[p].key].t)
            => ret[p] = Result(NoErr, lastSet[op[p].key], <<>>)

\* a Get returned the string written earlier while the other key is stored too
C1_Witness ==
    \E p \in Procs :
        /\ Done(p, "Get") /\ NoFaults(p)
        /\ lastSet[op[p].key] = StrV(<<"\"">>)
        /\ ret[p].value = StrV(<<"\"">>)
        /\ StoredKeys(container) = Keys

\* C2: Get(k) returns the same ErrorKeyNotFound whether the container is
\* absent or the container exists without an entry for k.
C2_GetNotFoundUniform ==
    \A p \in Procs :
        (Done(p, "Get") /\ NoFaults(p) /\ ~Has(container, op[p].key))
            => ret[p] = Fail(ErrorKeyNotFound)

\* a Get found the container but no entry for its key
C2_Witness ==
    \E p \in Procs :
        /\ Done(p, "Get") /\ NoFaults(p)
        /\ container.exists /\ StoredKeys(container) # {}
        /\ ~Has(container, op[p].key)
        /\ ret[p] = Fail(ErrorKeyNotFound)

\* C3: Delete(k) of a key that is not stored returns no error, on every
\* backend, whether the container is absent or exists without the entry,
\* and leaves the stored keys as they were.
C3_DeleteAbsentSucceeds ==
    \A p \in Procs :
        (Done(p, "Delete") /\ NoFaults(p) /\ ~Has(before, op[p].key))
            => (ret[p].err = NoErr /\ StoredKeys(container) = StoredKeys(before))

\* C4: List() on a Store whose container does not exist returns no keys and
\* no error, on every backend.
C4_ListAbsentEmpty ==
    \A p \in Procs :
        (Done(p, "List") /\ NoFaults(p) /\ ~container.exists)
            => ret[p] = Result(NoErr, NoValue, <<>>)

\* a List of an absent ConfigMap or Secret returned
C4_Witness ==
    \E p \in Procs :
        /\ Done(p, "List") /\ NoFaults(p) /\ ~container.exists
        /\ kind \in Structured
        /\ ret[p] = Result(NoErr, NoValue, <<>>)

\* C5: on the ConfigMap, Secret and file backends a Set(k, v) of a
\* serialisable v whose calls all succeed returns success whether the
\* container was absent, existed without k, or held a prior value of k;
\* afterwards the container exists, k's entry decodes to v and every other
\* entry is as before (so from an absent container: exactly the entry k).
C5_SetUpsert ==
    \A p \in Procs :
        (/\ Done(p, "Set") /\ NoFaults(p)
         /\ kind # "annotation"
         /\ jsonMarshal(op[p].value).err = NoErr)
            => /\ ret[p].err = NoErr
               /\ container.exists
               /\ DOMAIN container.data = DOMAIN before.data \cup {op[p].key}
               /\ jsonUnmarshal(container.data[op[p].key], op[p].value.t)
                      = [err |-> NoErr, value |-> op[p].value]
               /\ \A n \in DOMAIN before.data \ {op[p].key} :
                      container.data[n] = before.data[n]

\* a Set against an absent ConfigMap or Secret created it with its one entry
C5_Witness ==
    \E p \in Procs :
        /\ Done(p, "Set") /\ NoFaults(p)
        /\ kind \in Structured
        /\ ~before.exists
        /\ CallNames(p) = <<"Patch", "Create", "Patch">>
        /\ ret[p].err = NoErr
        /\ DOMAIN container.data = {op[p].key}

\* C6: on the ConfigMap, Secret and file backends, as long as every call has
\* succeeded, after every completed operation the container exists iff it
\* holds at least one key; a Delete that leaves no key leaves no container.
C6_DeleteOnEmpty ==
    (Quiescent /\ ~faulted /\ kind # "annotation")
        => (container.exists <=> DOMAIN container.data # {})

\* a Delete removed the last key and with it the container
C6_Witness ==
    \E p \in Procs :
        /\ Done(p, "Delete") /\ ~faulted
        /\ kind # "annotation"
        /\ Has(before, op[p].key)
        /\ ret[p].err = NoErr
        /\ ~container.exists

\* C7: on the ConfigMap, Secret and file backends a Set(k, _) or Delete(k)
\* leaves every other key as it was: stored with the same encoded value, or
\* not stored; if another key is stored the container still exists.
C7_SiblingIsolation ==
    \A p \in Procs :
        (op[p].name \in {"Set", "Delete"} /\ pc[p] # "idle" /\ kind # "annotation")
            => \A k \in Keys \ {op[p].key} :
                  /\ Has(container, k) <=> Has(before, k)
                  /\ Has(before, k) => container.data[k] = before.data[k]

\* a Delete of one of two stored keys returned and the other key is stored
C7_Witness ==
    \E p \in Procs :
        /\ Done(p, "Delete") /\ NoFaults(p)
        /\ kind # "annotation"
        /\ Has(before, op[p].key)
        /\ ~Has(container, op[p].key)
        /\ \E k \in Keys \ {op[p].key} : Has(container, k)

\* the annotations of container c that do not start with the prefix and "/"
Foreign(c) ==
    {n \in DOMAIN c.data :
        \/ Len(n) < Len(annotationPrefix) + 1
        \/ \E i \in 1..Len(annotationPrefix) : n[i] # annotationPrefix[i]
        \/ n[Len(annotationPrefix) + 1] # "/"}

\* C8: on the annotation backend no step of any operation adds, removes or
\* changes an annotation that does not start with the prefix and "/", and a
\* List that returns no error returns, each once, exactly the keys k whose
\* annotation prefix/k is on the resource.
C8_PrefixIsolation ==
    /\ [][kind = "annotation" =>
            /\ Foreign(container') = Foreign(container)
            /\ \A n \in Foreign(container) : container'.data[n] = container.data[n]]_vars
    /\ [](\A p \in Procs :
            (kind = "annotation" /\ Done(p, "List") /\ ret[p].err = NoErr)
                => /\ Range(ret[p].keys) = StoredKeys(container)
                   /\ Len(ret[p].keys) = Cardinality(StoredKeys(container)))

\* a List of a resource with foreign annotations returned its one stored key
C8_Witness ==
    \E p \in Procs :
        /\ kind = "annotation" /\ Done(p, "List") /\ NoFaults(p)
        /\ Foreign(container) = Unrelated
        /\ Len(ret[p].keys) = 1
        /\ Range(ret[p].keys) = StoredKeys(container)

\* C9: the annotation backend never creates and never deletes its host
\* resource: no step changes whether it exists and no create or delete is
\* issued; a Set against an absent host issues one patch and returns the
\* API's not-found error; a Delete against an absent host returns success.
C9_HostNotOwned ==
    /\ [][kind = "annotation" => container'.exists = container.exists]_vars
    /\ [](\A p \in Procs :
            kind = "annotation" =>
                /\ \A i \in 1..Len(calls[p]) : calls[p][i].call \in {"Get", "Patch"}
                /\ (Done(p, "Set") /\ NoFaults(p) /\ ~before.exists
                        /\ jsonMarshal(op[p].value).err = NoErr)
                        => (ret[p] = Fail(StatusError(404)) /\ CallNames(p) = <<"Patch">>)
                /\ (Done(p, "Delete") /\ NoFaults(p) /\ ~before.exists)
                        => ret[p] = Ok)

\* a Set against an absent host resource returned the not-found error
C9_Witness ==
    \E p \in Procs :
        /\ kind = "annotation" /\ Done(p, "Set") /\ NoFaults(p)
        /\ ~before.exists /\ ~container.exists
        /\ ret[p] = Fail(StatusError(404))

\* the call of caller p's operation whose failure the operation may drop:
\* the removal of the container at the end of Delete
BestEffort(p, i) ==
    /\ op[p].name = "Delete"
    /\ calls[p][i].call \in {"Delete", "RemoveDir"}

\* C10: when the environment fails a call of an operation with an error
\* that is not "does not exist", the operation returns that error; only the
\* removal of the container at the end of Delete is exempt.
C10_ErrorsPropagate ==
    \A p \in Procs :
        pc[p] = "done" =>
            \A i \in 1..Len(calls[p]) :
                (calls[p][i].fault # NoFault /\ ~BestEffort(p, i))
                    => ret[p] = Fail(calls[p][i].fault)

\* C11: on the ConfigMap, Secret and file backends, a Delete of a stored key
\* whose entry removal succeeded returns success and leaves the key removed,
\* whatever the container removal that follows answers.
C11_CleanupSwallowed ==
    \A p \in Procs :
        (/\ Done(p, "Delete") /\ kind # "annotation"
         /\ Has(before, op[p].key)
         /\ Len(calls[p]) >= 1 /\ calls[p][1].fault = NoFault)
            => (ret[p].err = NoErr /\ ~Has(container, op[p].key))

\* a Delete removed its entry, the removal of the container failed and the
\* container is still there, and Delete returned success
C11_Witness ==
    \E p \in Procs :
        /\ Done(p, "Delete") /\ kind # "annotation"
        /\ Has(before, op[p].key)
        /\ Len(calls[p]) = 2
        /\ calls[p][1].fault = NoFault /\ calls[p][2].fault # NoFault
        /\ ret[p].err = NoErr
        /\ container.exists /\ ~Has(container, op[p].key)

\* C12: on the ConfigMap and Secret backends, when all callers run Set
\* concurrently against a container that does not exist and the environment
\* fails none of their calls, every Set returns success and every key is
\* stored: the create that finds the container already there is tolerated.
C12_AlreadyExistsTolerated ==
    (/\ kind \in Structured /\ ~before.exists
     /\ \A p \in Procs : Done(p, "Set") /\ NoFaults(p))
        => \A p \in Procs : ret[p].err = NoErr /\ Has(container, op[p].key)

\* every caller's operation has returned success, and no two of them were on
\* the same key
AllSucceededApart ==
    /\ \A p \in Procs : pc[p] = "done" /\ ret[p].err = NoErr
    /\ \A p, q \in Procs : p # q => op[p].key # op[q].key

\* the entry of caller p's Set is stored with the value it set
SetInPlace(p) ==
    /\ Has(container, op[p].key)
    /\ container.data[EntryName(op[p].key)] = jsonMarshal(op[p].value).data

\* the effect of caller p's operation is in place
InPlace(p) ==
    IF op[p].name = "Set" THEN SetInPlace(p) ELSE ~Has(container, op[p].key)

\* some caller's Delete issued the deletion of the container and the
\* environment did not fail it
ContainerDeleted ==
    \E q \in Procs : \E i \in 1..Len(calls[q]) :
        calls[q][i].call = "Delete" /\ calls[q][i].fault = NoFault

\* C13 as stated: once concurrent Set and Delete calls on different keys have
\* all returned success, the effect of each is in place.
C13_NoClobber ==
    AllSucceededApart => \A p \in Procs : InPlace(p)

\* C13, amended: once concurrent Set and Delete calls on different keys have
\* all returned success, the effect of each is in place, unless a Delete went
\* on to delete the container: then the entries of the Sets may be gone.
C13_NoClobberBarCleanup ==
    AllSucceededApart =>
        \A p \in Procs : InPlace(p) \/ (op[p].name = "Set" /\ ContainerDeleted)

\* a Set and a Delete ran on different stored keys, both returned success,
\* the Set's entry holds its new value and the other key is gone
C13_Witness ==
    \E p, q \in Procs :
        /\ AllSucceededApart /\ ~ContainerDeleted
        /\ op[p].name = "Set" /\ op[q].name = "Delete"
        /\ Has(before, op[p].key) /\ Has(before, op[q].key)
        /\ SetInPlace(p) /\ ~Has(container, op[q].key)
        /\ container.data[EntryName(op[p].key)] # before.data[EntryName(op[p].key)]

\* the step just taken was caller p's call named name, not failed by the
\* environment
Stepped(p, name) ==
    /\ Len(calls'[p]) = Len(calls[p]) + 1
    /\ calls'[p][Len(calls'[p])] = [call |-> name, fault |-> NoFault]

\* C14: on the ConfigMap and Secret backends, the patch with which Delete
\* removes its entry never removes the container, also when it leaves it
\* empty; the deletion of the container is a later call of its own, and it
\* removes the container whatever the container holds by then.
C14_CleanupUnconditional ==
    [][\A p \in Procs :
        (kind \in Structured /\ op[p].name = "Delete") =>
            /\ (Stepped(p, "Patch") /\ container.exists) => container'.exists
            /\ Stepped(p, "Delete") => ~container'.exists]_vars

\* Delete(k1) removed the last key, Set(k2) patched before the container was
\* deleted, both returned success; the container is absent and a Get of k2
\* answers ErrorKeyNotFound
C14_Witness ==
    \E p, q \in Procs :
        /\ kind = "configmap"
        /\ Done(p, "Delete") /\ Done(q, "Set")
        /\ StoredKeys(before) = {op[p].key} /\ op[q].key # op[p].key
        /\ CallNames(p) = <<"Patch", "Delete">> /\ CallNames(q) = <<"Patch">>
        /\ NoFaults(p) /\ NoFaults(q)
        /\ ret[p].err = NoErr /\ ret[q].err = NoErr
        /\ ~container.exists
        /\ configMapGetResult(clientGet(container, NoFault), op[q].key, "int").err
              = ErrorKeyNotFound

\* C15: on the file backend, under every interleaving, each step of a
\* Delete(k1) leaves the file of every other key in place with its content,
\* removes no file but that of k1, and removes the directory only if the
\* directory holds no file at that instant.
C15_FileDeleteFrame ==
    [][\A p \in Procs :
        (kind = "file" /\ op[p].name = "Delete" /\ calls'[p] # calls[p]) =>
            /\ \A k \in DOMAIN container.data \ {op[p].key} :
                  /\ k \in DOMAIN container'.data
                  /\ container'.data[k] = container.data[k]
            /\ DOMAIN container'.data \subseteq DOMAIN container.data
            /\ (container.exists /\ ~container'.exists) => DOMAIN container.data = {}]_vars

\* Delete(k1) removed the only file while a Set(k2) ran; both returned success
\* with no failed call, and the file of k2 is there with the value set
C15_Witness ==
    \E p, q \in Procs :
        /\ kind = "file"
        /\ Done(p, "Delete") /\ Done(q, "Set")
        /\ StoredKeys(before) = {op[p].key} /\ op[q].key # op[p].key
        /\ CallNames(p) = <<"Remove", "RemoveDir">>
        /\ NoFaults(p) /\ NoFaults(q)
        /\ ret[p].err = NoErr /\ ret[q].err = NoErr
        /\ StoredKeys(container) = {op[q].key}
        /\ container.data[op[q].key] = jsonMarshal(op[q].value).data

\* the number of calls named name that caller p's operation has issued
Count(p, name) == Cardinality({i \in 1..Len(calls[p]) : calls[p][i].call = name})

\* C16: on the ConfigMap and Secret backends, under every interleaving, one
\* call of Set issues at most one create and at most two patches.
C16_BoundedRetry ==
    \A p \in Procs :
        (kind \in Structured /\ op[p].name = "Set")
            => (Count(p, "Create") <= 1 /\ Count(p, "Patch") <= 2)

\* C17: with every call returning and every caller scheduled fairly, every
\* invoked operation eventually returns, also a Set on the ConfigMap or
\* Secret backend while other callers keep deleting.
C17_Termination ==
    \A p \in Procs : (pc[p] \notin {"idle", "done"}) ~> (pc[p] = "done")

\* the keys of the entries of container c (annotation backend: of the
\* annotations carrying the prefix, with the prefix stripped)
Entries(c) ==
    IF kind = "annotation"
    THEN {annotationKey(n) : n \in DOMAIN c.data \ Foreign(c)}
    ELSE DOMAIN c.data

\* C18: in sequential use, on every backend, a List none of whose calls
\* failed returns pairwise distinct keys, exactly the keys of the container's
\* entries, and a Get none of whose calls failed returns ErrorKeyNotFound
\* exactly for the keys that are not among them.
C18_ListGetAgreement ==
    \A p \in Procs :
        /\ (Done(p, "List") /\ NoFaults(p)) =>
              /\ ret[p].err = NoErr
              /\ Len(ret[p].keys) = Cardinality(Range(ret[p].keys))
              /\ Range(ret[p].keys) = Entries(container)
        /\ (Done(p, "Get") /\ NoFaults(p)) =>
              (ret[p].err = ErrorKeyNotFound <=> op[p].key \notin Entries(container))

\* a List returned every key while the container holds them all
C18_Witness ==
    \E p \in Procs :
        /\ Done(p, "List") /\ NoFaults(p)
        /\ Range(ret[p].keys) = Keys
        /\ StoredKeys(container) = Keys

\* caller p's operation, in progress, has just issued a call
Acted(p) == pc[p] \notin {"idle", "done"} /\ calls'[p] # calls[p]

\* what a Get of key with type typ answers on container c when no call fails
GetOn(c, key, typ) ==
    IF key \notin Entries(c)
    THEN Fail(ErrorKeyNotFound)
    ELSE LET u == jsonUnmarshal(c.data[EntryName(key)], typ)
         IN  Result(u.err, u.value, <<>>)

\* C19: every call of a Get or List is a read and leaves the container as it
\* was; the container comes into existence only by a call of a Set and goes
\* out of existence only by a call of a Delete; and what a Get or List met by
\* no failed call returns is determined by the container alone, whichever
\* caller wrote it.
C19_ReadsPure ==
    /\ [][/\ \A p \in Procs :
               (Acted(p) /\ op[p].name \in {"Get", "List"}) =>
                   /\ container' = container
                   /\ calls'[p][Len(calls'[p])].call \in {"Get", "ReadFile", "ReadDir"}
          /\ (~container.exists /\ container'.exists) =>
                \E p \in Procs : Acted(p) /\ op[p].name = "Set"
          /\ (container.exists /\ ~container'.exists) =>
                \E p \in Procs : Acted(p) /\ op[p].name = "Delete"]_vars
    /\ [](\A p \in Procs :
            /\ (Done(p, "Get") /\ NoFaults(p)) =>
                  ret[p] = GetOn(container, op[p].key, op[p].typ)
            /\ (Done(p, "List") /\ NoFaults(p)) =>
                  /\ ret[p].err = NoErr /\ ret[p].value = NoValue
                  /\ ret[p].keys \in Orderings(Entries(container)))

\* a Get returned the value stored by an earlier Set and left the container
\* as it found it
C19_Witness ==
    \E p \in Procs :
        /\ Done(p, "Get") /\ NoFaults(p)
        /\ lastSet[op[p].key] # NoValue
        /\ ret[p] = Result(NoErr, lastSet[op[p].key], <<>>)
        /\ container = before /\ container.exists

\* C20: on the Secret backend, Set's patch carries one entry, for the key,
\* under stringData and none under data; Delete's patch carries one null, for
\* the key, under data and none under stringData; with the API server moving
\* stringData into data, a Set met by no failed call stores exactly its entry
\* in data, a Get then returns the value set, and a Delete met by no failed
\* call removes exactly its entry from data and, when none is left, the Secret.
C20_SecretAsymmetry ==
    /\ \A k \in Keys, t \in Texts :
          /\ secretSetPatch(k, t).data = EmptyMap
          /\ secretSetPatch(k, t).stringData = MapOf(k, JStr(t))
          /\ secretDeletePatch(k).stringData = EmptyMap
          /\ secretDeletePatch(k).data = MapOf(k, JNull)
    /\ \A p \in Procs :
          (kind = "secret" /\ pc[p] = "done" /\ NoFaults(p)) =>
              /\ (op[p].name = "Set" /\ ret[p].err = NoErr) =>
                    /\ container.exists
                    /\ container.data =
                          [n \in DOMAIN before.data \cup {op[p].key} |->
                              IF n = op[p].key THEN jsonMarshal(op[p].value).data
                              ELSE before.data[n]]
              /\ (op[p].name = "Get" /\ lastSet[op[p].key] # NoValue
                      /\ op[p].typ = lastSet[op[p].key].t) =>
                    ret[p].value = lastSet[op[p].key]
              /\ op[p].name = "Delete" =>
                    /\ ret[p].err = NoErr
                    /\ container.data =
                          [n \in DOMAIN before.data \ {op[p].key} |-> before.data[n]]
                    /\ container.exists <=> DOMAIN container.data # {}

\* a Delete removed the only entry of the Secret, which an earlier Set had
\* written through stringData, and then the Secret
C20_Witness ==
    \E p \in Procs :
        /\ kind = "secret" /\ Done(p, "Delete") /\ NoFaults(p)
        /\ StoredKeys(before) = {op[p].key}
        /\ CallNames(p) = <<"Patch", "Delete">>
        /\ ret[p].err = NoErr
        /\ ~container.exists

\* C21: on the ConfigMap, Secret and file backends, in sequential use, after
\* a Set that returned an error a List and a Get of every key answer what they
\* answered before the Set; only the existence of the container may differ.
C21_FailedSetKeepsView ==
    \A p \in Procs :
        (Done(p, "Set") /\ ret[p].err # NoErr /\ kind # "annotation") =>
            /\ Entries(container) = Entries(before)
            /\ \A k \in Keys, t \in Types :
                  GetOn(container, k, t) = GetOn(before, k, t)
            /\ before.exists => container.exists

\* a Set created the container, its next call failed and Set returned that
\* error: an empty container is left behind where there was none
C21_Witness ==
    \E p \in Procs :
        /\ Done(p, "Set") /\ kind # "annotation"
        /\ ret[p].err # NoErr
        /\ Len(calls[p]) >= 2
        /\ calls[p][Len(calls[p])].fault = ret[p].err
        /\ ~before.exists
        /\ container = Container(TRUE, EmptyMap)

\* C22: on the file backend, Set's creation of the directory writes no file
\* and Set goes on to the file write as a later call of its own; a file
\* write that finds the directory removed in between stores nothing, and Set
\* returns its error.
C22_FileSetNotAtomic ==
    [][\A p \in Procs :
        (kind = "file" /\ op[p].name = "Set") =>
            /\ Stepped(p, "MkdirAll") =>
                  /\ container' = Container(TRUE, container.data)
                  /\ pc'[p] = "WriteFile"
            /\ (Stepped(p, "WriteFile") /\ ~container.exists) =>
                  /\ container' = container
                  /\ pc'[p] = "done" /\ ret'[p] = Fail(PathError("ENOENT"))]_vars

\* Delete(k1) removed the only file and the directory between the two calls
\* of Set(k2); with no call failed by the environment Delete returned success
\* and Set an error, and k2 is not stored
C22_Witness ==
    \E p, q \in Procs :
        /\ kind = "file"
        /\ Done(p, "Set") /\ Done(q, "Delete")
        /\ StoredKeys(before) = {op[q].key} /\ op[p].key # op[q].key
        /\ CallNames(p) = <<"MkdirAll", "WriteFile">>
        /\ CallNames(q) = <<"Remove", "RemoveDir">>
        /\ NoFaults(p) /\ NoFaults(q)
        /\ ret[q].err = NoErr
        /\ ret[p].err = PathError("ENOENT")
        /\ ~container.exists /\ ~Has(container, op[p].key)

====
